---- MODULE Spec2Model ----
(***************************************************************************)
(* Model of iam_member_report.run(): one sequential run that validates an  *)
(* organization, lists all projects, walks the folder hierarchy with an    *)
(* explicit stack, fetches IAM policies and writes a CSV report.           *)
(*                                                                         *)
(* A step of the model is the stretch of run() up to and including one     *)
(* remote request (request.execute()), with the outcome of the request     *)
(* chosen by the environment: a response, or an HttpError.                 *)
(*                                                                         *)
(* Strings that the code takes apart are modelled by their pieces:         *)
(*   - a resource name "folders/f1" is the tuple <<"folders", "f1">>, so   *)
(*     that name.split('/')[1] is the second component;                    *)
(*   - a member string "user:a" is the token sequence <<"user",":","a">>,  *)
(*     and member.split(':') is computed by Split.                         *)
(***************************************************************************)
EXTENDS Integers, Sequences, FiniteSets, TLC

\* ------------------------------------------------------------------ bounds
\* at most this many requests raise HttpError in one run
MaxFailures == 1
\* a listing page holds at most this many entries
MaxPage == 2
\* most bindings of a policy document, and most members of a binding, that the
\* flattening loops are applied to on their own
MaxBindings == 2
MaxMembers == 2

\* ------------------------------------------------------- the remote world
None == "None"
\* a local of run() that has not been assigned yet
Unbound == << >>
\* the None that list_next() returns when there is no further page
NoRequest == << >>
OrgId == "123"
FolderSeq == <<"f1", "f2", "f3">>
FolderIds == {FolderSeq[i] : i \in 1..Len(FolderSeq)}
ProjectIds == <<"p1", "p2">>
LifecycleStates == {"ACTIVE", "DELETE_REQUESTED"}

OrgName == <<"organizations", OrgId>>

\* the value of the f-string f'folders/{folder_id}'
FolderName(fid) == <<"folders", fid>>

\* the resource a project's policy is asked for (resource=pid), tagged with
\* its collection so that it is comparable with the other resource names
ProjectResource(pid) == <<"projects", pid>>

\* fname.split('/')[1]
FolderIdOf(fname) == fname[2]

\* a member string 'typ:mem'
Member(typ, mem) == <<typ, ":", mem>>

\* member strings that do not split into exactly two parts
BadMembers == { <<"nocolon">>, <<"deleted", ":", "user", ":", "a">> }

\* The IAM policy documents the remote side holds for each resource.
PolicyOf(resource) ==
  CASE resource = OrgName ->
         [bindings |-> << [role |-> "roles/owner",
                           members |-> << Member("user", "a"),
                                          Member("group", "g") >>] >>]
    [] resource = FolderName("f1") ->
         [bindings |-> << [role |-> "roles/viewer",
                           members |-> << Member("user", "b") >>],
                          [role |-> "roles/editor"] >>]
    [] resource = FolderName("f2") ->
         [etag |-> "e"]
    [] resource = FolderName("f3") ->
         [bindings |-> << [role |-> "roles/editor",
                           members |-> << Member("serviceAccount", "s"),
                                          Member("user", "a") >>] >>]
    [] resource = ProjectResource("p1") ->
         [bindings |-> << [role |-> "roles/viewer",
                           members |-> << Member("user", "b") >>] >>]
    [] OTHER ->
         [bindings |-> << [role |-> "roles/owner", members |-> << >>],
                          [role |-> "roles/browser",
                           members |-> << Member("group", "g") >>] >>]

\* The same document with one more binding holding the member string bad.
WithMember(doc, bad) ==
  LET bs == IF "bindings" \in DOMAIN doc THEN doc.bindings ELSE << >>
  IN  [bindings |-> Append(bs, [role |-> "roles/x", members |-> <<bad>>])]

\* What getIamPolicy(resource).execute() may return when it does not raise.
PolicyResponses(resource) ==
  {PolicyOf(resource)} \cup {WithMember(PolicyOf(resource), b) : b \in BadMembers}

\* ------------------------------------------------------------ python bits
\* dict.get(key, default)
Get(d, key, default) == IF key \in DOMAIN d THEN d[key] ELSE default

\* str.lower() on the lifecycle states
Lower(s) ==
  CASE s = "ACTIVE" -> "active"
    [] s = "DELETE_REQUESTED" -> "delete_requested"
    [] OTHER -> s

\* truth value of a str-or-None, as tested by `if folder_id:`
Truthy(v) == v # None /\ v # ""

\* s.split(sep): the pieces of s between occurrences of sep
RECURSIVE Split(_, _)
Split(s, sep) ==
  IF \A i \in 1..Len(s) : s[i] # sep
  THEN <<s>>
  ELSE LET k == CHOOSE i \in 1..Len(s) :
                  s[i] = sep /\ \A j \in 1..(i-1) : s[j] # sep
       IN  <<SubSeq(s, 1, k-1)>> \o Split(SubSeq(s, k+1, Len(s)), sep)

\* sys.exit(arg): None is status 0, True is status 1
SysExit(arg) == IF arg = None THEN 0 ELSE 1

\* the value True
PyTrue == "True"

Min(a, b) == IF a < b THEN a ELSE b

\* ------------------------------------------------------ policy flattening
\* the (role, member) pairs of a policy in the order the two nested loops
\* visit them
RECURSIVE Pairs(_)
Pairs(bindings) ==
  IF bindings = << >> THEN << >>
  ELSE LET b  == Head(bindings)
           ms == Get(b, "members", << >>)
       IN  [i \in 1..Len(ms) |-> [role |-> b.role, member |-> ms[i]]]
           \o Pairs(Tail(bindings))

\* typ, mem = member.split(':') succeeds only on exactly two parts
Unpacks(member) == Len(Split(member, ":")) = 2

\* Row that fills org_id on every row
RowOrgTagged(pair, o, f, p) ==
  LET parts == Split(pair.member, ":")
  IN  <<parts[2], parts[1], pair.role, OrgId, f, p>>

\* r = (mem, typ, binding['role'], org, folder, project)
Row(pair, o, f, p) ==
  LET parts == Split(pair.member, ":")
  IN  <<parts[2], parts[1], pair.role, o, f, p>>

\* Flatten that skips a member that does not unpack and goes on
FlattenSkipsMalformed(iam, o, f, p) ==
  LET ps   == Pairs(Get(iam, "bindings", << >>))
      good == SelectSeq(ps, LAMBDA pair : Unpacks(pair.member))
  IN  [rows |-> [i \in 1..Len(good) |-> Row(good[i], o, f, p)],
       ok   |-> TRUE]

\* Flatten that emits one row per binding, for its first member only
FlattenFirstMember(iam, o, f, p) ==
  LET bs   == Get(iam, "bindings", << >>)
      keep == SelectSeq(bs, LAMBDA b : Get(b, "members", << >>) # << >>)
      ps   == [i \in 1..Len(keep) |->
                 [role |-> keep[i].role, member |-> keep[i].members[1]]]
      bad  == {i \in 1..Len(ps) : ~Unpacks(ps[i].member)}
      upto == IF bad = {} THEN Len(ps)
              ELSE (CHOOSE i \in bad : \A j \in bad : i <= j) - 1
  IN  [rows |-> [i \in 1..upto |-> Row(ps[i], o, f, p)],
       ok   |-> bad = {}]

\* The loops over iam.get('bindings', []): the rows appended, up to the first
\* member that does not unpack (ok = FALSE: ValueError, uncaught).
Flatten(iam, o, f, p) ==
  LET ps   == Pairs(Get(iam, "bindings", << >>))
      bad  == {i \in 1..Len(ps) : ~Unpacks(ps[i].member)}
      upto == IF bad = {} THEN Len(ps)
              ELSE (CHOOSE i \in bad : \A j \in bad : i <= j) - 1
  IN  [rows |-> [i \in 1..upto |-> Row(ps[i], o, f, p)],
       ok   |-> bad = {}]

Header == <<"member", "member_type", "role", "org_id", "folder_id", "project_id">>

\* ------------------------------------------------------------------ state
VARIABLES
  folder_id,       \* args.folder: None or a folder id
  folderParent,    \* remote: folder id -> id of its parent (org or folder)
  remoteProjects,  \* remote: the projects visible to the caller, in order
  pc,              \* where run() is
  org, projects, request, response, final_results, folders, stack,
  current,         \* the locals of run() of these names
  parent,          \* the local parent of lines 118-139, the start node of the
                   \* walk; the project loop's rebinding of the name (line
                   \* 182) is the par of the project actions
  iam,             \* the local iam: the policy the last successful fetch returned
  _ERROR,          \* the degraded flag
  fi,              \* position of `for folder in response.get('folders', [])`
  idx,             \* position of `for project in projects`
  outfile,         \* "unopened" or "open" or "closed": the output file
  file,            \* the rows written to the output file
  caveat,          \* whether the 'may not be completely accurate' line was printed
  retval,          \* what run() returned
  exitStatus,      \* << >> while running, <<status>> once the process has exited
  nfail,           \* number of requests that raised HttpError
  issued,          \* requests executed at least once
  repeated,        \* requests executed more than once
  failed,          \* requests that raised HttpError
  retried          \* requests executed again after they had raised HttpError

env   == <<folder_id, folderParent, remoteProjects>>
ghost == <<issued, repeated, failed, retried>>
vars  == <<folder_id, folderParent, remoteProjects, pc, fi, idx, nfail, projects,
           request, response, final_results, folders, stack, iam, _ERROR,
           outfile, file, caveat, retval, exitStatus,
           issued, repeated, failed, retried, org, parent, current>>

\* the identity of a remote request: the API method, the resource it is about
\* and the page offset
Req(api, resource, page) == [api |-> api, resource |-> resource, page |-> page]

OrgGetReq == Req("organizations.get", OrgName, 0)
OrgPolicyReq == Req("organizations.getIamPolicy", OrgName, 0)
FolderPolicyReq(fid) == Req("folders.getIamPolicy", FolderName(fid), 0)
ProjectPolicyReq(pid) == Req("projects.getIamPolicy", ProjectResource(pid), 0)
ProjectListReq(page) == Req("projects.list", <<"projects">>, page)
FolderListReq(par, page) == Req("folders.list", par, page)

\* request.execute() returned
Executed(r) ==
  /\ issued'   = issued \cup {r}
  /\ repeated' = IF r \in issued THEN repeated \cup {r} ELSE repeated
  /\ retried'  = IF r \in failed THEN retried \cup {r} ELSE retried
  /\ failed'   = failed
  /\ nfail'    = nfail

\* request.execute() raised HttpError
Raised(r) ==
  /\ nfail < MaxFailures
  /\ nfail'    = nfail + 1
  /\ issued'   = issued \cup {r}
  /\ repeated' = IF r \in issued THEN repeated \cup {r} ELSE repeated
  /\ retried'  = IF r \in failed THEN retried \cup {r} ELSE retried
  /\ failed'   = failed \cup {r}

\* ----------------------------------------------------------- remote world
\* the folder records that folders.list(parent=par) returns over all its pages
ChildrenSeq(par) ==
  LET IsChild(f) == \/ par = OrgName /\ folderParent[f] = OrgId
                    \/ par = FolderName(folderParent[f])
      kids == SelectSeq(FolderSeq, IsChild)
  IN  [i \in 1..Len(kids) |-> [name |-> FolderName(kids[i]), parent |-> par]]

\* every folder hangs, through its parents, under the organization
RECURSIVE UnderOrg(_, _, _)
UnderOrg(fp, f, fuel) ==
  \/ fp[f] = OrgId
  \/ fuel > 0 /\ fp[f] \in FolderIds /\ UnderOrg(fp, fp[f], fuel - 1)

Forests ==
  {fp \in [FolderIds -> {OrgId} \cup FolderIds] :
     \A f \in FolderIds : UnderOrg(fp, f, Cardinality(FolderIds))}

\* a project record; a project may have no 'parent' key at all
ProjectRecords(pid) ==
  {[projectId |-> pid, lifecycleState |-> st, parent |-> [type |-> "organization", id |-> OrgId]]
     : st \in LifecycleStates}
  \cup {[projectId |-> pid, lifecycleState |-> st, parent |-> [type |-> "folder", id |-> f]]
     : st \in LifecycleStates, f \in FolderIds}
  \cup {[projectId |-> pid, lifecycleState |-> "ACTIVE"]}

\* the project listings considered: the first project is active with any
\* parent or none, or not active under the organization or the last folder;
\* the others are active under the last folder
ProjectListings ==
  {ps \in [1..Len(ProjectIds) -> UNION {ProjectRecords(ProjectIds[i]) : i \in 1..Len(ProjectIds)}] :
     \A i \in 1..Len(ProjectIds) :
       /\ ps[i].projectId = ProjectIds[i]
       /\ ps[i].lifecycleState # "ACTIVE" =>
            ps[i].parent.id \in {OrgId, FolderSeq[Len(FolderSeq)]}
       /\ i > 1 => /\ ps[i].lifecycleState = "ACTIVE"
                   /\ "parent" \in DOMAIN ps[i]
                   /\ ps[i].parent.id = FolderSeq[Len(FolderSeq)]}

Init ==
  /\ folder_id \in {None, FolderSeq[1]}
  /\ folderParent \in Forests
  /\ remoteProjects \in ProjectListings
  /\ pc = "parse_args"
  /\ org = Unbound
  /\ projects = << >>
  /\ request = OrgGetReq
  /\ response = [x \in {} |-> None]
  /\ final_results = << >>
  /\ parent = Unbound
  /\ folders = {}
  /\ stack = << >>
  /\ current = Unbound
  /\ iam = [x \in {} |-> None]
  /\ _ERROR = None
  /\ fi = 1
  /\ idx = 1
  /\ outfile = "unopened"
  /\ file = << >>
  /\ caveat = FALSE
  /\ retval = None
  /\ exitStatus = << >>
  /\ nfail = 0
  /\ issued = {}
  /\ repeated = {}
  /\ failed = {}
  /\ retried = {}

\* ---------------------------------------------------------------- actions
\* the process ends on an uncaught exception: traceback, status 1
Crash ==
  /\ pc' = "crashed"
  /\ exitStatus' = <<1>>

\* ParseArgs with argparse.FileType('w') in place of LazyFileType('w'): the
\* output file is opened, and truncated, while the arguments are parsed
ParseArgsOpens ==
  /\ pc = "parse_args"
  /\ outfile' = "open"
  /\ file' = << >>
  /\ pc' = "get_org"
  /\ UNCHANGED <<env, iam, org, projects, request, response, final_results, parent,
                 folders, stack, current, _ERROR, fi, idx, caveat, retval,
                 exitStatus, nfail, ghost>>

\* lines 57-66, 79-88: parse_args(); LazyFileType('w').__call__ records the file
\* name and, the mode being 'w', neither looks at the file nor opens it
ParseArgs ==
  /\ pc = "parse_args"
  /\ outfile' = "unopened"
  /\ pc' = "get_org"
  /\ UNCHANGED <<env, iam, org, projects, request, response, final_results, parent,
                 folders, stack, current, _ERROR, fi, idx, file, caveat, retval,
                 exitStatus, nfail, ghost>>

\* lines 96-99: organizations().get().execute() returns
GetOrganization ==
  /\ pc = "get_org"
  /\ Executed(OrgGetReq)
  /\ org' = [name |-> OrgName]
  /\ request' = ProjectListReq(0)
  /\ pc' = "list_projects"
  /\ UNCHANGED <<env, iam, projects, response, final_results, parent, folders, stack,
                 current, _ERROR, fi, idx, outfile, file, caveat, retval, exitStatus>>

\* GetOrganizationHttpError with the error reported but the run going on
GetOrganizationHttpErrorIgnored ==
  /\ pc = "get_org"
  /\ Raised(OrgGetReq)
  /\ org' = [name |-> OrgName]
  /\ request' = ProjectListReq(0)
  /\ pc' = "list_projects"
  /\ UNCHANGED <<env, iam, projects, response, final_results, parent, folders, stack,
                 current, _ERROR, fi, idx, outfile, file, caveat, retval, exitStatus>>

\* lines 100-101: it raises HttpError; raise SystemExit(message): status 1
GetOrganizationHttpError ==
  /\ pc = "get_org"
  /\ Raised(OrgGetReq)
  /\ pc' = "aborted"
  /\ exitStatus' = <<1>>
  /\ UNCHANGED <<env, iam, org, projects, request, response, final_results, parent,
                 folders, stack, current, _ERROR, fi, idx, outfile, file, caveat,
                 retval>>

\* lines 108-113: one page of projects().list(); list_next gives the request
\* for the next page, or None after the last one
ListProjects ==
  /\ pc = "list_projects"
  /\ Executed(request)
  /\ \E n \in 1..MaxPage :
       LET upto == Min(request.page + n, Len(remoteProjects))
           page == SubSeq(remoteProjects, request.page + 1, upto)
       IN  /\ response' = IF page = << >> THEN [x \in {} |-> None]
                          ELSE [projects |-> page]
           /\ projects' = projects \o page
           /\ IF upto < Len(remoteProjects)
              THEN /\ request' = ProjectListReq(upto)
                   /\ pc' = "list_projects"
              ELSE /\ request' = NoRequest
                   /\ pc' = "set_parent"
  /\ UNCHANGED <<env, iam, org, final_results, parent, folders, stack, current, _ERROR,
                 fi, idx, outfile, file, caveat, retval, exitStatus>>

\* line 110 raises HttpError, which nothing catches
ListProjectsHttpError ==
  /\ pc = "list_projects"
  /\ Raised(request)
  /\ Crash
  /\ UNCHANGED <<env, iam, org, projects, request, response, final_results, parent,
                 folders, stack, current, _ERROR, fi, idx, outfile, file, caveat,
                 retval>>

\* lines 138-139
StartWalk ==
  /\ folders' = {}
  /\ stack' = <<parent'>>

\* lines 118-119, 138-139: a folder restriction was given
SetParentFolder ==
  /\ pc = "set_parent"
  /\ Truthy(folder_id)
  /\ parent' = FolderName(folder_id)
  /\ StartWalk
  /\ pc' = "walk"
  /\ UNCHANGED <<env, iam, org, projects, request, response, final_results, current,
                 _ERROR, fi, idx, outfile, file, caveat, retval, exitStatus, nfail,
                 ghost>>

\* GetOrgIamPolicy with the policy fetch outside the `else:` branch, so that
\* it also happens under a folder restriction
GetOrgIamPolicyAlways ==
  /\ pc = "set_parent"
  /\ parent' = IF Truthy(folder_id) THEN FolderName(folder_id) ELSE org.name
  /\ request' = OrgPolicyReq
  /\ Executed(OrgPolicyReq)
  /\ \E doc \in PolicyResponses(org.name) :
       LET fl == Flatten(doc, OrgId, "", "")
       IN  /\ iam' = doc
           /\ final_results' = final_results \o fl.rows
           /\ IF fl.ok
              THEN /\ StartWalk
                   /\ pc' = "walk"
                   /\ UNCHANGED exitStatus
              ELSE /\ Crash
                   /\ UNCHANGED <<folders, stack>>
  /\ UNCHANGED <<env, org, projects, response, current, _ERROR, fi, idx, outfile,
                 file, caveat, retval>>

\* lines 121-126, 131-139: no restriction; the organization's policy is fetched
\* and flattened
GetOrgIamPolicy ==
  /\ pc = "set_parent"
  /\ ~Truthy(folder_id)
  /\ parent' = org.name
  /\ request' = OrgPolicyReq
  /\ Executed(OrgPolicyReq)
  /\ \E doc \in PolicyResponses(org.name) :
       LET fl == Flatten(doc, OrgId, "", "")
       IN  /\ iam' = doc
           /\ final_results' = final_results \o fl.rows
           /\ IF fl.ok
              THEN /\ StartWalk
                   /\ pc' = "walk"
                   /\ UNCHANGED exitStatus
              ELSE /\ Crash
                   /\ UNCHANGED <<folders, stack>>
  /\ UNCHANGED <<env, org, projects, response, current, _ERROR, fi, idx, outfile,
                 file, caveat, retval>>

\* lines 121-130, 138-139: the organization's policy fetch raises HttpError
GetOrgIamPolicyHttpError ==
  /\ pc = "set_parent"
  /\ ~Truthy(folder_id)
  /\ parent' = org.name
  /\ request' = OrgPolicyReq
  /\ Raised(OrgPolicyReq)
  /\ _ERROR' = PyTrue
  /\ StartWalk
  /\ pc' = "walk"
  /\ UNCHANGED <<env, iam, org, projects, response, final_results, current, fi, idx,
                 outfile, file, caveat, retval, exitStatus>>

\* WalkPop that reads the top of the stack and leaves it there
WalkPeek ==
  /\ pc = "walk"
  /\ stack # << >>
  /\ current' = stack[Len(stack)]
  /\ request' = FolderListReq(current', 0)
  /\ pc' = "list_folders"
  /\ UNCHANGED <<env, iam, org, projects, response, final_results, parent, folders,
                 stack, _ERROR, fi, idx, outfile, file, caveat, retval, exitStatus,
                 nfail, ghost>>

\* lines 142-144: pop a node and build the request for its first page
WalkPop ==
  /\ pc = "walk"
  /\ stack # << >>
  /\ current' = stack[Len(stack)]
  /\ stack' = SubSeq(stack, 1, Len(stack) - 1)
  /\ request' = FolderListReq(current', 0)
  /\ pc' = "list_folders"
  /\ UNCHANGED <<env, iam, org, projects, response, final_results, parent, folders,
                 _ERROR, fi, idx, outfile, file, caveat, retval, exitStatus, nfail,
                 ghost>>

\* lines 145-148: one page of folders().list(parent=current)
ListFolders ==
  /\ pc = "list_folders"
  /\ Executed(request)
  /\ \E n \in 1..MaxPage :
       LET kids == ChildrenSeq(request.resource)
           upto == Min(request.page + n, Len(kids))
           page == SubSeq(kids, request.page + 1, upto)
       IN  response' =
             (IF page = << >> THEN [x \in {} |-> None] ELSE [folders |-> page])
             @@ (IF upto < Len(kids) THEN [nextPageToken |-> upto]
                 ELSE [x \in {} |-> None])
  /\ fi' = 1
  /\ pc' = "for_folder"
  /\ UNCHANGED <<env, iam, org, projects, request, final_results, parent, folders,
                 stack, current, _ERROR, idx, outfile, file, caveat, retval,
                 exitStatus>>

\* lines 149-153: the listing raises HttpError; `continue` goes back to
\* `while request:` with request unchanged
ListFoldersHttpError ==
  /\ pc = "list_folders"
  /\ Raised(request)
  /\ _ERROR' = PyTrue
  /\ pc' = "list_folders"
  /\ UNCHANGED <<env, iam, org, projects, request, response, final_results, parent,
                 folders, stack, current, fi, idx, outfile, file, caveat, retval,
                 exitStatus>>

\* lines 155-174: one folder of the page; its policy fetch returns
FolderIamPolicy ==
  /\ pc = "for_folder"
  /\ fi <= Len(Get(response, "folders", << >>))
  /\ LET folder == response.folders[fi]
         fname  == folder.name
         fid    == FolderIdOf(fname)
     IN  /\ stack' = Append(stack, folder.name)
         /\ folders' = folders \cup {fid}
         /\ Executed(Req("folders.getIamPolicy", folder.name, 0))
         /\ \E doc \in PolicyResponses(folder.name) :
              LET fl == Flatten(doc, "", fid, "")
              IN  /\ iam' = doc
                  /\ final_results' = final_results \o fl.rows
                  /\ IF fl.ok
                     THEN /\ fi' = fi + 1
                          /\ UNCHANGED <<pc, exitStatus>>
                     ELSE /\ Crash
                          /\ UNCHANGED fi
  /\ UNCHANGED <<env, org, projects, request, response, parent, current, _ERROR,
                 idx, outfile, file, caveat, retval>>

\* FolderIamPolicyHttpError without `continue`: the loops run over the policy
\* that the previous successful fetch left in iam
FolderIamPolicyHttpErrorStale ==
  /\ pc = "for_folder"
  /\ fi <= Len(Get(response, "folders", << >>))
  /\ LET folder == response.folders[fi]
         fid    == FolderIdOf(folder.name)
     IN  /\ stack' = Append(stack, folder.name)
         /\ folders' = folders \cup {fid}
         /\ Raised(Req("folders.getIamPolicy", folder.name, 0))
         /\ final_results' = final_results \o Flatten(iam, "", fid, "").rows
  /\ _ERROR' = PyTrue
  /\ fi' = fi + 1
  /\ UNCHANGED <<env, iam, org, projects, request, response, parent, current, pc,
                 idx, outfile, file, caveat, retval, exitStatus>>

\* FolderIamPolicyHttpError that forgets the folder whose fetch failed: it is
\* neither pushed nor added to the visited set
FolderIamPolicyHttpErrorDrops ==
  /\ pc = "for_folder"
  /\ fi <= Len(Get(response, "folders", << >>))
  /\ Raised(Req("folders.getIamPolicy", response.folders[fi].name, 0))
  /\ _ERROR' = PyTrue
  /\ fi' = fi + 1
  /\ UNCHANGED <<env, iam, org, projects, request, response, final_results, parent,
                 folders, stack, current, pc, idx, outfile, file, caveat, retval,
                 exitStatus>>

\* lines 155-168: its policy fetch raises HttpError; `continue` goes to the
\* next folder of the page
FolderIamPolicyHttpError ==
  /\ pc = "for_folder"
  /\ fi <= Len(Get(response, "folders", << >>))
  /\ LET folder == response.folders[fi]
         fname  == folder.name
         fid    == FolderIdOf(fname)
     IN  /\ stack' = Append(stack, folder.name)
         /\ folders' = folders \cup {fid}
         /\ Raised(Req("folders.getIamPolicy", folder.name, 0))
  /\ _ERROR' = PyTrue
  /\ fi' = fi + 1
  /\ UNCHANGED <<env, iam, org, projects, request, response, final_results, parent,
                 current, pc, idx, outfile, file, caveat, retval, exitStatus>>

\* ListNext that never asks for a further page
ListNextFirstPageOnly ==
  /\ pc = "for_folder"
  /\ fi > Len(Get(response, "folders", << >>))
  /\ request' = NoRequest
  /\ pc' = "walk"
  /\ UNCHANGED <<env, iam, org, projects, response, final_results, parent, folders,
                 stack, current, _ERROR, fi, idx, outfile, file, caveat, retval,
                 exitStatus, nfail, ghost>>

\* lines 176-177: list_next after the page's folders: the next page's request,
\* or None, which ends `while request:`
ListNext ==
  /\ pc = "for_folder"
  /\ fi > Len(Get(response, "folders", << >>))
  /\ IF "nextPageToken" \in DOMAIN response
     THEN /\ request' = FolderListReq(request.resource, response.nextPageToken)
          /\ pc' = "list_folders"
     ELSE /\ request' = NoRequest
          /\ pc' = "walk"
  /\ UNCHANGED <<env, iam, org, projects, response, final_results, parent, folders,
                 stack, current, _ERROR, fi, idx, outfile, file, caveat, retval,
                 exitStatus, nfail, ghost>>

\* WalkEnd that leaves the loop after any listing, whatever is on the stack
WalkEndEarly ==
  /\ pc = "walk"
  /\ idx' = 1
  /\ pc' = "projects"
  /\ UNCHANGED <<env, iam, org, projects, request, response, final_results, parent,
                 folders, stack, current, _ERROR, fi, outfile, file, caveat, retval,
                 exitStatus, nfail, ghost>>

\* line 142 with an empty stack, lines 180-181: the walk is over
WalkEnd ==
  /\ pc = "walk"
  /\ stack = << >>
  /\ idx' = 1
  /\ pc' = "projects"
  /\ UNCHANGED <<env, iam, org, projects, request, response, final_results, parent,
                 folders, stack, current, _ERROR, fi, outfile, file, caveat, retval,
                 exitStatus, nfail, ghost>>

\* lines 187-188: the test that selects a project for a policy fetch
Eligible(project, par) ==
  /\ Lower(project.lifecycleState) = "active"
  /\ \/ Get(par, "id", None) = OrgId
     \/ Get(par, "id", None) \in folders

\* lines 181-188: a project that is not selected
ProjectSkip ==
  /\ pc = "projects"
  /\ idx <= Len(projects)
  /\ LET project == projects[idx]
         par     == Get(project, "parent", [x \in {} |-> None])
     IN  /\ ~Eligible(project, par)
  /\ idx' = idx + 1
  /\ UNCHANGED <<env, parent, iam, org, projects, request, response, final_results, folders,
                 stack, current, _ERROR, fi, pc, outfile, file, caveat, retval,
                 exitStatus, nfail, ghost>>

\* ProjectIamPolicy with the flag reset once a fetch succeeds
ProjectIamPolicyClearsError ==
  /\ pc = "projects"
  /\ idx <= Len(projects)
  /\ LET project == projects[idx]
         par     == Get(project, "parent", [x \in {} |-> None])
         pid     == project.projectId
     IN  /\ Eligible(project, par)
         /\ Executed(ProjectPolicyReq(pid))
         /\ \E doc \in PolicyResponses(ProjectResource(pid)) :
              LET fl == Flatten(doc, "", "", pid)
              IN  /\ iam' = doc
                  /\ final_results' = final_results \o fl.rows
                  /\ IF fl.ok
                     THEN /\ idx' = idx + 1
                          /\ UNCHANGED <<pc, exitStatus>>
                     ELSE /\ Crash
                          /\ UNCHANGED idx
  /\ _ERROR' = None
  /\ UNCHANGED <<env, parent, org, projects, request, response, folders, stack, current,
                 fi, outfile, file, caveat, retval>>

\* lines 181-192, 198-202: a selected project; its policy fetch returns
ProjectIamPolicy ==
  /\ pc = "projects"
  /\ idx <= Len(projects)
  /\ LET project == projects[idx]
         par     == Get(project, "parent", [x \in {} |-> None])
         pid     == project.projectId
     IN  /\ Eligible(project, par)
         /\ Executed(ProjectPolicyReq(pid))
         /\ \E doc \in PolicyResponses(ProjectResource(pid)) :
              LET fl == Flatten(doc, "", "", pid)
              IN  /\ iam' = doc
                  /\ final_results' = final_results \o fl.rows
                  /\ IF fl.ok
                     THEN /\ idx' = idx + 1
                          /\ UNCHANGED <<pc, exitStatus>>
                     ELSE /\ Crash
                          /\ UNCHANGED idx
  /\ UNCHANGED <<env, parent, org, projects, request, response, folders, stack, current,
                 _ERROR, fi, outfile, file, caveat, retval>>

\* ProjectIamPolicyHttpError without `_ERROR = True`
ProjectIamPolicyHttpErrorUnflagged ==
  /\ pc = "projects"
  /\ idx <= Len(projects)
  /\ LET project == projects[idx]
         par     == Get(project, "parent", [x \in {} |-> None])
         pid     == project.projectId
     IN  /\ Eligible(project, par)
         /\ Raised(ProjectPolicyReq(pid))
  /\ idx' = idx + 1
  /\ UNCHANGED <<env, parent, iam, org, projects, request, response, final_results, folders,
                 stack, current, _ERROR, fi, pc, outfile, file, caveat, retval,
                 exitStatus>>

\* ProjectIamPolicyHttpError with `break` in place of `continue`
ProjectIamPolicyHttpErrorBreaks ==
  /\ pc = "projects"
  /\ idx <= Len(projects)
  /\ LET project == projects[idx]
         par     == Get(project, "parent", [x \in {} |-> None])
         pid     == project.projectId
     IN  /\ Eligible(project, par)
         /\ Raised(ProjectPolicyReq(pid))
  /\ _ERROR' = PyTrue
  /\ idx' = Len(projects) + 1
  /\ UNCHANGED <<env, parent, iam, org, projects, request, response, final_results, folders,
                 stack, current, fi, pc, outfile, file, caveat, retval, exitStatus>>

\* lines 181-196: its policy fetch raises HttpError; `continue`
ProjectIamPolicyHttpError ==
  /\ pc = "projects"
  /\ idx <= Len(projects)
  /\ LET project == projects[idx]
         par     == Get(project, "parent", [x \in {} |-> None])
         pid     == project.projectId
     IN  /\ Eligible(project, par)
         /\ Raised(ProjectPolicyReq(pid))
  /\ _ERROR' = PyTrue
  /\ idx' = idx + 1
  /\ UNCHANGED <<env, parent, iam, org, projects, request, response, final_results, folders,
                 stack, current, fi, pc, outfile, file, caveat, retval, exitStatus>>

\* lines 204-217: open the output file, write the header and the rows, close
\* it, print the caveat if _ERROR, return _ERROR
WriteReport ==
  /\ pc = "projects"
  /\ idx > Len(projects)
  /\ outfile' = "closed"
  /\ file' = <<Header>> \o final_results
  /\ caveat' = Truthy(_ERROR)
  /\ retval' = _ERROR
  /\ pc' = "returned"
  /\ UNCHANGED <<env, iam, org, projects, request, response, final_results, parent,
                 folders, stack, current, _ERROR, fi, idx, exitStatus, nfail, ghost>>

\* line 222: sys.exit(run(...))
Main ==
  /\ pc = "returned"
  /\ exitStatus' = <<SysExit(retval)>>
  /\ pc' = "exited"
  /\ UNCHANGED <<env, iam, org, projects, request, response, final_results, parent,
                 folders, stack, current, _ERROR, fi, idx, outfile, file, caveat,
                 retval, nfail, ghost>>

Next ==
  \/ ParseArgs
  \/ GetOrganization
  \/ GetOrganizationHttpError
  \/ ListProjects
  \/ ListProjectsHttpError
  \/ SetParentFolder
  \/ GetOrgIamPolicy
  \/ GetOrgIamPolicyHttpError
  \/ WalkPop
  \/ ListFolders
  \/ ListFoldersHttpError
  \/ FolderIamPolicy
  \/ FolderIamPolicyHttpError
  \/ ListNext
  \/ WalkEnd
  \/ ProjectSkip
  \/ ProjectIamPolicy
  \/ ProjectIamPolicyHttpError
  \/ WriteReport
  \/ Main

Spec == Init /\ [][Next]_vars

\* ------------------------------------------------ the flattening loops alone
\* The nested loops over a fetched policy, applied to every policy document of
\* a bounded shape: a document has no 'bindings' key or up to MaxBindings
\* bindings; a binding has no 'members' key or up to MaxMembers members.
MemberStrings == {Member("user", "a"), Member("group", "g"), <<"nocolon">>}

Roles == <<"roles/owner", "roles/viewer", "roles/editor", "roles/browser">>

SeqsUpTo(S, n) == UNION {[1..k -> S] : k \in 0..n}

\* what a binding may hold: no 'members' key, or a list of members
MemberChoices ==
  {<<FALSE, << >> >>} \cup {<<TRUE, ms>> : ms \in SeqsUpTo(MemberStrings, MaxMembers)}

\* the document whose k-th binding has role Roles[k] and the members c[k]
PolicyDoc(c) ==
  [bindings |-> [k \in DOMAIN c |->
                   IF c[k][1] THEN [role |-> Roles[k], members |-> c[k][2]]
                   ELSE [role |-> Roles[k]]]]

\* a row appended by an earlier fetch
PriorRow == Row([role |-> "roles/prior", member |-> Member("user", "z")], "", "", "p0")

FlattenInit ==
  /\ folder_id = None
  /\ folderParent = [f \in FolderIds |-> OrgId]
  /\ remoteProjects = << >>
  /\ pc = "flatten"
  /\ org = [name |-> OrgName]
  /\ projects = << >>
  /\ request = OrgGetReq
  /\ response = [x \in {} |-> None]
  /\ final_results = <<PriorRow>>
  /\ parent = Unbound
  /\ folders = {}
  /\ stack = << >>
  /\ current = Unbound
  /\ \/ iam = [etag |-> "e"]
     \/ \E n \in 0..MaxBindings : \E c \in [1..n -> MemberChoices] : iam = PolicyDoc(c)
  /\ _ERROR = None
  /\ fi = 1
  /\ idx = 1
  /\ outfile = "unopened"
  /\ file = << >>
  /\ caveat = FALSE
  /\ retval = None
  /\ exitStatus = << >>
  /\ nfail = 0
  /\ issued = {}
  /\ repeated = {}
  /\ failed = {}
  /\ retried = {}

\* the loops, with the location fields o, f, p, on the policy that req returned
FlattenAt(req, o, f, p) ==
  /\ pc = "flatten"
  /\ request' = req
  /\ LET fl == Flatten(iam, o, f, p)
     IN  /\ final_results' = final_results \o fl.rows
         /\ IF fl.ok
            THEN /\ pc' = "flattened"
                 /\ UNCHANGED exitStatus
            ELSE Crash
  /\ UNCHANGED <<env, ghost, iam, org, projects, response, parent, folders, stack,
                 current, _ERROR, fi, idx, outfile, file, caveat, retval, nfail>>

\* lines 132-136
FlattenOrganization == FlattenAt(OrgPolicyReq, OrgId, "", "")

\* lines 170-174
FlattenFolder ==
  \E fid \in {FolderSeq[1]} : FlattenAt(FolderPolicyReq(fid), "", fid, "")

\* lines 198-202
FlattenProject ==
  \E pid \in {ProjectIds[1]} : FlattenAt(ProjectPolicyReq(pid), "", "", pid)

FlattenNext ==
  \/ FlattenOrganization
  \/ FlattenFolder
  \/ FlattenProject

FlattenSpec == FlattenInit /\ [][FlattenNext]_vars

\* ------------------------------------------------- runs in which no call fails
\* The steps of a run in which every remote call returns. The program is
\* sequential and each call returns, so a step that is possible is taken.
NoFailNext ==
  \/ ParseArgs
  \/ GetOrganization
  \/ ListProjects
  \/ SetParentFolder
  \/ GetOrgIamPolicy
  \/ WalkPop
  \/ ListFolders
  \/ FolderIamPolicy
  \/ ListNext
  \/ WalkEnd
  \/ ProjectSkip
  \/ ProjectIamPolicy
  \/ WriteReport
  \/ Main

NoFailSpec == Init /\ [][NoFailNext]_vars /\ WF_vars(NoFailNext)

\* ------------------------------------------------- notions the claims use
\* the rows of a sequence, as a set
Range(seq) == {seq[i] : i \in 1..Len(seq)}

\* the rows of the output file below its header
FileRows == IF file = << >> THEN {} ELSE Range(Tail(file))

\* folder f lies below node a (an id) in the remote hierarchy
RECURSIVE IsUnder(_, _, _)
IsUnder(f, a, fuel) ==
  \/ folderParent[f] = a
  \/ fuel > 0 /\ folderParent[f] \in FolderIds /\ IsUnder(folderParent[f], a, fuel - 1)

\* the folders reachable from node a by repeated child-folder expansion
Descendants(a) == {f \in FolderIds : IsUnder(f, a, Cardinality(FolderIds))}

\* the id of a project's parent, None without one
ParentId(project) == Get(Get(project, "parent", [x \in {} |-> None]), "id", None)

IsActive(project) == project.lifecycleState \in {"ACTIVE", "active"}

\* the project loop has gone past position i
Processed(i) ==
  /\ pc \in {"projects", "returned", "exited", "crashed"}
  /\ i < idx

\* the rows a well-formed policy of a resource gives
ExpectedRows(resource, o, f, p) == Flatten(PolicyOf(resource), o, f, p).rows

\* C1: a project's policy is fetched if and only if the project is active and
\* (its parent is the organization and no folder restriction was given, or its
\* parent is a visited folder).
JoinCorrectness ==
  \A i \in 1..Len(projects) :
    Processed(i) =>
      ( ProjectPolicyReq(projects[i].projectId) \in issued
        <=> /\ IsActive(projects[i])
            /\ \/ ParentId(projects[i]) = OrgId /\ folder_id = None
               \/ ParentId(projects[i]) \in folders )

\* C2: when a child-folder listing fails for a node, the degraded flag is set,
\* the children the failed page would have returned are not discovered, and a
\* run that completes exits non-zero.
WalkFailureTolerance ==
  \A r \in failed :
    r.api = "folders.list" =>
      /\ _ERROR = PyTrue
      /\ \A k \in (r.page + 1)..Len(ChildrenSeq(r.resource)) :
           FolderIdOf(ChildrenSeq(r.resource)[k].name) \notin folders
      /\ pc = "exited" => exitStatus # <<0>>

\* C3: a request that failed is never executed again.
NoAutomaticRetry == retried = {}

\* C4: in a failure-free run restricted to folder F, every active project
\* whose parent is F or a descendant folder of F has its policy fetched and
\* its rows written to the report.
RestrictedFolderOwnProjects ==
  (pc = "exited" /\ failed = {} /\ folder_id # None) =>
    \A i \in 1..Len(projects) :
      ( /\ IsActive(projects[i])
        /\ ParentId(projects[i]) \in {folder_id} \cup Descendants(folder_id) )
      => /\ ProjectPolicyReq(projects[i].projectId) \in issued
         /\ Range(ExpectedRows(ProjectResource(projects[i].projectId), "", "",
                               projects[i].projectId)) \subseteq FileRows

\* C5: in a failure-free run restricted to folder F, the policy of F itself
\* is fetched and the report holds its folder-tagged rows.
RootFolderPolicyReported ==
  (pc = "exited" /\ failed = {} /\ folder_id # None) =>
    /\ FolderPolicyReq(folder_id) \in issued
    /\ Range(ExpectedRows(FolderName(folder_id), "", folder_id, "")) \subseteq FileRows

\* C6: a step in which a request other than the organization lookup fails
\* sets the degraded flag and does not end the run.
EveryCallFailureDegrades ==
  [][ (failed' # failed /\ failed' \ failed # {OrgGetReq})
        => (_ERROR' = PyTrue /\ pc' \notin {"crashed", "aborted"}) ]_vars

\* C7: if the organization lookup fails the run is over with a non-zero exit:
\* the lookup is the only request ever issued, there is no row, the output
\* file is untouched and no further step is possible.
FatalShortCircuit ==
  OrgGetReq \in failed =>
    /\ pc = "aborted"
    /\ issued = {OrgGetReq}
    /\ final_results = << >>
    /\ outfile = "unopened" /\ file = << >>
    /\ exitStatus # << >> /\ exitStatus # <<0>>
    /\ ~ENABLED Next

\* C7 witness: the organization lookup has failed
OrgLookupFailed == OrgGetReq \in failed /\ pc = "aborted"

\* C8: once the degraded flag is set no step clears it, and the step that
\* ends a completed run then exits with a non-zero status.
DegradedMonotonic ==
  [][ _ERROR = PyTrue =>
        /\ _ERROR' = PyTrue
        /\ pc' = "exited" => exitStatus' # <<0>> ]_vars

\* C8 witness: a run that failed at the organization policy, then fetched
\* policies successfully, and completed
DegradedThenSucceeded ==
  /\ pc = "exited"
  /\ OrgPolicyReq \in failed
  /\ final_results # << >>
  /\ _ERROR = PyTrue

\* C9: for a run that wrote its report, the exit status is non-zero exactly
\* when some request failed during the run, and the caveat was printed
\* exactly then.
ExitStatusIsDegradedFlag ==
  /\ pc \in {"returned", "exited"} => (caveat <=> failed # {})
  /\ pc = "exited" => (exitStatus # <<0>> <=> failed # {})

\* C9 witness: a completed run with a failed request, status 1 and the caveat
DegradedExit ==
  /\ pc = "exited"
  /\ failed # {}
  /\ exitStatus = <<1>>
  /\ caveat

\* C10: with a folder restriction the organization's policy is never fetched
\* and no row carries an org_id; without one, once the walk has started, it
\* has been fetched exactly once, and its rows are the first rows of the
\* result when the fetch succeeded.
OrgPolicyOnlyWhenUnrestricted ==
  /\ folder_id # None =>
       /\ OrgPolicyReq \notin issued
       /\ \A i \in 1..Len(final_results) : final_results[i][4] = ""
       /\ \A i \in 2..Len(file) : file[i][4] = ""
  /\ (folder_id = None /\ pc \in {"walk", "list_folders", "for_folder", "projects",
                                  "returned", "exited"}) =>
       /\ OrgPolicyReq \in issued
       /\ OrgPolicyReq \notin repeated
       /\ LET rows == ExpectedRows(OrgName, OrgId, "", "")
          IN  IF OrgPolicyReq \in failed
              THEN \A i \in 1..Len(final_results) : final_results[i][4] = ""
              ELSE /\ Len(final_results) >= Len(rows)
                   /\ SubSeq(final_results, 1, Len(rows)) = rows
                   /\ \A i \in (Len(rows) + 1)..Len(final_results) :
                        final_results[i][4] = ""

\* C10 witness: a completed restricted run with rows, though the organization
\* has bindings
RestrictedRunWithRows ==
  /\ pc = "exited"
  /\ folder_id # None
  /\ final_results # << >>
  /\ ExpectedRows(OrgName, OrgId, "", "") # << >>

\* C11: the output file leaves the unopened state only in the step that
\* follows the last remote call of a run whose organization lookup succeeded
\* (the walk is over and the project loop is past its last project), parsing
\* the arguments does not open it, and once it has been opened no request is
\* issued any more.
DeferredOutputOpen ==
  [][ /\ (outfile = "unopened" /\ outfile' # "unopened") =>
           /\ pc = "projects" /\ idx > Len(projects) /\ stack = << >>
           /\ OrgGetReq \in issued \ failed
           /\ issued' = issued
      /\ outfile # "unopened" =>
           /\ issued' = issued
           /\ outfile' # "unopened" ]_vars

\* C11 witness: the report has been written after several remote calls
ReportWrittenAfterCalls ==
  /\ outfile = "closed"
  /\ Cardinality(issued) > 3
  /\ file # << >>

\* the id of the node the walk starts at
StartId == IF folder_id = None THEN OrgId ELSE folder_id

\* the folder walk is over and the run has not crashed
WalkOver == pc \in {"projects", "returned", "exited"}

\* C12: in a run without a failed request, the visited-folder-id set at the
\* end of the walk is exactly the set of folders reachable from the start
\* node by repeated child-folder expansion.
WalkerCompleteness ==
  (WalkOver /\ failed = {}) => folders = Descendants(StartId)

\* C12 witness: a failure-free walk over all three folders in which some
\* child listing took more than one page
WalkOverPagedTree ==
  /\ WalkOver
  /\ failed = {}
  /\ folders = FolderIds
  /\ \E r \in issued : r.api = "folders.list" /\ r.page > 0
\* number of ':' separators of a member string
Colons(member) == Cardinality({i \in 1..Len(member) : member[i] = ":"})

\* every member of the document is of the form 'type:identifier'
WellFormed(doc) ==
  \A k \in 1..Len(Get(doc, "bindings", << >>)) :
    \A i \in 1..Len(Get(doc.bindings[k], "members", << >>)) :
      Colons(doc.bindings[k].members[i]) = 1

\* number of members of binding k of the document
MemberCount(doc, k) == Len(Get(doc.bindings[k], "members", << >>))

\* number of members of the first k bindings of the document
RECURSIVE MembersBefore(_, _)
MembersBefore(doc, k) ==
  IF k = 0 THEN 0 ELSE MembersBefore(doc, k - 1) + MemberCount(doc, k)

\* the location fields of the rows of the node a policy request is about
LocationOf(req) ==
  CASE req.api = "organizations.getIamPolicy" -> <<req.resource[2], "", "">>
    [] req.api = "folders.getIamPolicy"       -> <<"", req.resource[2], "">>
    [] req.api = "projects.getIamPolicy"      -> <<"", "", req.resource[2]>>

\* C13: flattening cardinality. When the loops have run over a policy whose
\* members are all well formed, they have ended normally, the earlier rows are
\* untouched, the number of appended rows is the sum of the member counts of
\* the bindings (none for a document without bindings, none for a binding
\* without members), and the rows of binding k, in order, carry that
\* binding's role, its members, and the location of the node.
FlattenCardinality ==
  (pc \in {"flattened", "crashed"} /\ WellFormed(iam)) =>
    LET n   == Len(Get(iam, "bindings", << >>))
        loc == LocationOf(request)
    IN  /\ pc = "flattened"
        /\ final_results[1] = PriorRow
        /\ Len(final_results) = 1 + MembersBefore(iam, n)
        /\ \A k \in 1..n : \A i \in 1..MemberCount(iam, k) :
             LET r == final_results[1 + MembersBefore(iam, k - 1) + i]
                 m == iam.bindings[k].members[i]
             IN  r = <<SubSeq(m, 3, Len(m)), SubSeq(m, 1, 1), iam.bindings[k].role,
                       loc[1], loc[2], loc[3]>>

\* a folder policy with a binding of two members and a binding of one member
\* has been flattened
FlattenedTwoBindings ==
  /\ pc = "flattened"
  /\ request = FolderPolicyReq(FolderSeq[1])
  /\ WellFormed(iam)
  /\ Len(Get(iam, "bindings", << >>)) = 2
  /\ MemberCount(iam, 1) = 2
  /\ MemberCount(iam, 2) = 1
  /\ Len(final_results) = 4


\* the (role, member string) pairs of the policy the remote side holds for a
\* resource
PolicyPairs(resource) ==
  LET bs == Get(PolicyOf(resource), "bindings", << >>)
  IN  UNION { {<<bs[k].role, bs[k].members[i]>> :
                 i \in 1..Len(Get(bs[k], "members", << >>))} : k \in 1..Len(bs) }

\* the row r restates a binding of the policy of the resource, whose policy
\* request has been executed
RowComesFrom(r, req) ==
  /\ req \in issued
  /\ <<r[3], r[2] \o <<":">> \o r[1]>> \in PolicyPairs(req.resource)

\* C14: location tagging exclusivity. In every state every accumulated row has
\* exactly one non-empty field among org_id, folder_id and project_id, and
\* that field is the id of the node whose fetched policy holds the row's
\* binding: the organization for org_id, a folder for folder_id, a project for
\* project_id.
LocationTagging ==
  \A j \in 1..Len(final_results) :
    LET r == final_results[j]
    IN  /\ Cardinality({n \in 4..6 : r[n] # ""}) = 1
        /\ r[4] # "" => r[4] = OrgId /\ RowComesFrom(r, OrgPolicyReq)
        /\ r[5] # "" => r[5] \in FolderIds /\ RowComesFrom(r, FolderPolicyReq(r[5]))
        /\ r[6] # "" => /\ \E i \in 1..Len(ProjectIds) : r[6] = ProjectIds[i]
                        /\ RowComesFrom(r, ProjectPolicyReq(r[6]))

\* rows of an organization, of a folder and of a project have been accumulated
RowsOfThreeLevels ==
  /\ \E j \in 1..Len(final_results) : final_results[j][4] # ""
  /\ \E j \in 1..Len(final_results) : final_results[j][5] # ""
  /\ \E j \in 1..Len(final_results) : final_results[j][6] # ""


\* C15: join against the final visited set. No step removes an id from the
\* visited set; a step of the project loop is taken only with an empty work
\* stack, and from then on the visited set does not change; and a step of the
\* project loop over an active project whose parent id is in the visited set
\* issues that project's policy request.
JoinAgainstFinalSet ==
  [][ /\ folders \subseteq folders'
      /\ pc = "projects" => (stack = << >> /\ stack' = << >> /\ folders' = folders)
      /\ (issued' \ issued) \cap {ProjectPolicyReq(ProjectIds[i]) : i \in 1..Len(ProjectIds)} # {}
            => pc = "projects"
      /\ (pc = "projects" /\ idx <= Len(projects)) =>
           LET project == projects[idx]
           IN  (IsActive(project) /\ ParentId(project) \in folders)
                 => ProjectPolicyReq(project.projectId) \in issued' ]_vars

\* In a chain of three folders the walk discovers the deepest folder last; an
\* active project under it has had its policy fetched and reported.
ProjectUnderLastFolderSelected ==
  /\ folder_id = None
  /\ folderParent[FolderSeq[1]] = OrgId
  /\ folderParent[FolderSeq[2]] = FolderSeq[1]
  /\ folderParent[FolderSeq[3]] = FolderSeq[2]
  /\ \E i \in 1..Len(remoteProjects) :
       /\ ParentId(remoteProjects[i]) = FolderSeq[3]
       /\ ProjectPolicyReq(remoteProjects[i].projectId) \in issued \ failed
       /\ \E j \in 1..Len(final_results) :
            final_results[j][6] = remoteProjects[i].projectId


\* C16: a folder policy-fetch failure loses only that folder's rows. Whenever
\* the policy request of a folder has failed, the degraded flag is set, no
\* accumulated row carries that folder's id, the id is in the visited set, the
\* folder's name is on the work stack or its children are being or have been
\* listed; once the walk is over its children have been listed and every
\* folder under the start node, the ones after it on its page included, has
\* had its policy requested; and every processed active project parented by
\* it has had its policy requested.
FolderFetchFailureLocal ==
  \A f \in FolderIds :
    FolderPolicyReq(f) \in failed =>
      /\ _ERROR = PyTrue
      /\ \A j \in 1..Len(final_results) : final_results[j][5] # f
      /\ f \in folders
      /\ \/ \E n \in 1..Len(stack) : stack[n] = FolderName(f)
         \/ current = FolderName(f)
         \/ FolderListReq(FolderName(f), 0) \in issued
      /\ WalkOver =>
           /\ FolderListReq(FolderName(f), 0) \in issued
           /\ \A g \in Descendants(StartId) : FolderPolicyReq(g) \in issued
      /\ \A i \in 1..Len(projects) :
           (Processed(i) /\ IsActive(projects[i]) /\ ParentId(projects[i]) = f)
             => ProjectPolicyReq(projects[i].projectId) \in issued

\* The fetch for the first folder failed; the run still reported its sibling
\* listed after it, listed its child, and reported a project parented by it.
FailedFolderStillWalked ==
  /\ pc = "exited"
  /\ FolderPolicyReq(FolderSeq[1]) \in failed
  /\ folderParent[FolderSeq[1]] = OrgId
  /\ folderParent[FolderSeq[2]] = FolderSeq[1]
  /\ folderParent[FolderSeq[3]] = OrgId
  /\ FolderSeq[2] \in folders
  /\ \E j \in 1..Len(final_results) : final_results[j][5] = FolderSeq[3]
  /\ \E i \in 1..Len(projects) :
       /\ ParentId(projects[i]) = FolderSeq[1]
       /\ \E j \in 1..Len(final_results) : final_results[j][6] = projects[i].projectId


\* number of members of all bindings of the policy held for a resource
PolicyMembers(resource) ==
  MembersBefore(PolicyOf(resource), Len(Get(PolicyOf(resource), "bindings", << >>)))

\* number of accumulated rows of project pid
ProjectRowCount(pid) ==
  Cardinality({j \in 1..Len(final_results) : final_results[j][6] = pid})

\* the project meets the selection test of the join
Selected(project) ==
  IsActive(project) /\ (ParentId(project) = OrgId \/ ParentId(project) \in folders)

\* what holds of a project whose policy fetch has failed
AfterProjectFetchFailure ==
  \A i \in 1..Len(projects) :
    ProjectPolicyReq(projects[i].projectId) \in failed =>
      /\ _ERROR = PyTrue
      /\ ProjectRowCount(projects[i].projectId) = 0
      /\ \A k \in (i + 1)..Len(projects) :
           (Processed(k) /\ Selected(projects[k])) =>
             /\ ProjectPolicyReq(projects[k].projectId) \in issued
             /\ ProjectPolicyReq(projects[k].projectId) \notin failed =>
                  ProjectRowCount(projects[k].projectId)
                    = PolicyMembers(ProjectResource(projects[k].projectId))

\* C17: a project policy-fetch failure loses only that project's rows. The
\* step in which a project's policy request fails sets the degraded flag,
\* leaves the accumulated rows as they are and moves to the next project; and
\* in every state reached, a project whose request failed has no row, while
\* every later selected project the loop has passed has had its policy
\* requested and, unless that request failed too, has all its rows.
ProjectFetchFailureLocal ==
  [][ /\ (pc = "projects" /\ failed' # failed) =>
           /\ _ERROR' = PyTrue
           /\ final_results' = final_results
           /\ idx' = idx + 1
           /\ pc' = "projects"
      /\ AfterProjectFetchFailure' ]_vars

\* the fetch for the first project failed after rows had been accumulated, and
\* the second project was still fetched and reported
LaterProjectStillReported ==
  /\ pc = "exited"
  /\ Len(projects) = 2
  /\ ProjectPolicyReq(projects[1].projectId) \in failed
  /\ ProjectRowCount(projects[2].projectId) > 0
  /\ \E j \in 1..Len(final_results) : final_results[j][4] # ""


\* the document holds a member string with no ':' or with more than one
Malformed(doc) == ~WellFormed(doc)

\* C18: a malformed member string ends the run. Whenever the policy last
\* fetched holds a member that does not split on ':' into exactly two parts,
\* the process has ended on the uncaught error with a non-zero status, no
\* further step, and so no further remote call, is possible, and the output
\* file has never been opened, so none of the rows gathered was written.
MalformedMemberCrashes ==
  Malformed(iam) =>
    /\ pc = "crashed"
    /\ exitStatus # << >> /\ exitStatus # <<0>>
    /\ outfile = "unopened" /\ file = << >>
    /\ retval = None
    /\ ~ENABLED Next

\* a folder's policy with a member of two colons ended a run that had already
\* gathered rows
CrashedOnTwoColons ==
  /\ pc = "crashed"
  /\ final_results # << >>
  /\ \E f \in FolderIds : FolderPolicyReq(f) \in issued
  /\ \E k \in 1..Len(Get(iam, "bindings", << >>)) :
       \E i \in 1..MemberCount(iam, k) : Colons(iam.bindings[k].members[i]) > 1


\* the children of folder f have been asked for
Listed(f) == FolderListReq(FolderName(f), 0) \in issued

\* the children of folder f are about to be asked for
BeingListed(f) == pc = "list_folders" /\ current = FolderName(f)

\* folder f's name is on the work stack
OnStack(f) == \E n \in 1..Len(stack) : stack[n] = FolderName(f)

\* number of accumulated rows of folder f
FolderRowCount(f) ==
  Cardinality({j \in 1..Len(final_results) : final_results[j][5] = f})

\* Exactly-once expansion, as a predicate on states: no request has been
\* executed twice; no name is on the stack twice; a folder is in the visited
\* set exactly if its policy has been requested; a visited folder is either
\* on the stack or has had its listing started, never both; no folder has
\* more rows than its policy has members; and when the walk is over the stack
\* is empty and every folder under the start node has been listed and has
\* exactly the rows of its policy.
ExactlyOnceState ==
  /\ repeated = {}
  /\ \A m, n \in 1..Len(stack) : m # n => stack[m] # stack[n]
  /\ \A f \in FolderIds :
       /\ f \in folders <=> FolderPolicyReq(f) \in issued
       /\ f \in folders => (OnStack(f) <=> ~(Listed(f) \/ BeingListed(f)))
       /\ FolderRowCount(f) <= PolicyMembers(FolderName(f))
  /\ WalkOver =>
       /\ stack = << >>
       /\ \A g \in Descendants(StartId) :
            /\ Listed(g)
            /\ FolderPolicyReq(g) \in issued
            /\ FolderRowCount(g) = PolicyMembers(FolderName(g))

RequestOfRow(r) ==
  IF r[4] # "" THEN Req("organizations.getIamPolicy", <<"organizations", r[4]>>, 0)
  ELSE IF r[5] # "" THEN FolderPolicyReq(r[5])
  ELSE ProjectPolicyReq(r[6])

\* how many (binding, member) positions of the policy held for the resource
\* give the role and the member of row r
PositionsOf(r, resource) ==
  LET bs == Get(PolicyOf(resource), "bindings", << >>)
  IN  Cardinality(
        UNION { {<<k, i>> : i \in {i \in 1..Len(Get(bs[k], "members", << >>)) :
                                    /\ bs[k].role = r[3]
                                    /\ bs[k].members[i] = r[2] \o <<":">> \o r[1]}}
                : k \in 1..Len(bs) })

\* the node named by row r is one whose policy a run without failures over
\* the same organization, folders and project list fetches
InFailureFreeRun(r) ==
  IF r[4] # "" THEN r[4] = OrgId /\ folder_id = None
  ELSE IF r[5] # "" THEN r[5] \in Descendants(StartId)
  ELSE \E i \in 1..Len(remoteProjects) :
         /\ remoteProjects[i].projectId = r[6]
         /\ IsActive(remoteProjects[i])
         /\ \/ ParentId(remoteProjects[i]) = OrgId
            \/ ParentId(remoteProjects[i]) \in Descendants(StartId)

\* how often row r is in the report of that run
FailureFreeCount(r) ==
  IF InFailureFreeRun(r) THEN PositionsOf(r, RequestOfRow(r).resource) ELSE 0

\* how often row r is in the written file
FileCount(r) == Cardinality({j \in 2..Len(file) : file[j] = r})

\* C20: a degraded run still produces a sound partial report. Once the report
\* has been written, the file is the fixed header followed by all accumulated
\* rows; every row restates a member of a binding of the policy of the node
\* it names, and that node's policy request was executed and did not fail; and
\* every row is in the file at most as often as in the report of the run
\* without failures over the same hierarchy and project list.
SoundPartialReport ==
  pc \in {"returned", "exited"} =>
    /\ outfile = "closed"
    /\ file = <<Header>> \o final_results
    /\ \A j \in 2..Len(file) :
         /\ RequestOfRow(file[j]) \in issued \ failed
         /\ PositionsOf(file[j], RequestOfRow(file[j]).resource) > 0
         /\ FileCount(file[j]) <= FailureFreeCount(file[j])

\* a report with rows of other nodes has been written although the policy
\* fetch of a folder had failed
PartialReportWritten ==
  /\ pc = "returned"
  /\ Len(file) > 2
  /\ \E f \in FolderIds : FolderPolicyReq(f) \in failed
  /\ \E j \in 2..Len(file) : ~(\E f \in FolderIds : FolderPolicyReq(f) \in failed /\ file[j][5] = f)


====
